---- MODULE Spec2Model ----
(***************************************************************************)
(* A model of rio's non-blocking TCP layer (src/src/lib.rs, net.rs,        *)
(* tcp.rs): the address codec socket_addr / to_socket_addr on the bytes of *)
(* the native structures, and the descriptor life cycle of TcpListener and *)
(* TcpStream (bind, accept, connect, from_raw_fd, into_raw_fd, drop) over  *)
(* a kernel descriptor table.                                              *)
(***************************************************************************)
EXTENDS Integers, Sequences, FiniteSets, TLC

\* ------------------------------------------------------------------ bounds
\* Sample generators: how many generated IPv4 / IPv6 addresses, ports,
\* flow/scope values and uninitialised-memory patterns the codec is run on.
MaxIpK == 2
MaxPortK == 3
MaxWordK == 2
MaxJunkK == 2
MaxFillK == 2
\* Life cycle: size of the descriptor table, live endpoints the caller may
\* hold at once, queued connections per listener, generated ports.
MaxFd == 2
MaxEp == 2
MaxPending == 1
MaxLifePortK == 0
MaxLifeJunkK == 0

\* ----------------------------------------------------- libc constants used
AF_INET == 2
AF_INET6 == 10
SOCK_STREAM == 1
SOCK_NONBLOCK == 2048
SOCK_CLOEXEC == 524288
Backlog == 1024
SizeofSockaddrStorage == 128

\* ------------------------------------------------------------- byte helpers
Byte == 0..255
Endians == {"le", "be"}

\* The memory image of a native-endian u16 / u32 value, and back.  A u32 is
\* the pair <<high 16 bits, low 16 bits>>: the checker's integers are 32-bit
\* signed.
U16Bytes(v, e) ==
    IF e = "le" THEN <<v % 256, v \div 256>> ELSE <<v \div 256, v % 256>>

U16From(b, e) ==
    IF e = "le" THEN b[1] + 256 * b[2] ELSE 256 * b[1] + b[2]

U32Bytes(v, e) ==
    LET b0 == v[2] % 256
        b1 == v[2] \div 256
        b2 == v[1] % 256
        b3 == v[1] \div 256
    IN  IF e = "le" THEN <<b0, b1, b2, b3>> ELSE <<b3, b2, b1, b0>>

U32From(b, e) ==
    IF e = "le"
    THEN <<b[3] + 256 * b[4], b[1] + 256 * b[2]>>
    ELSE <<256 * b[1] + b[2], 256 * b[3] + b[4]>>

\* u16::to_be / u16::from_be: a byte swap on a little-endian host, nothing on
\* a big-endian one.
SwapBytes16(v) == (v % 256) * 256 + (v \div 256)

\* Mutant of to_be: the port is stored in host order (the .to_be() left out).
to_be_left_out(v, e) == v

to_be(v, e) == IF e = "le" THEN SwapBytes16(v) ELSE v

from_be(v, e) == IF e = "le" THEN SwapBytes16(v) ELSE v

\* u32::from_ne_bytes / u32::to_ne_bytes.
from_ne_bytes(octets, e) == U32From(octets, e)

to_ne_bytes(v, e) == U32Bytes(v, e)

\* Memory is a sequence of bytes; offsets count from 0 as in C.
Put(mem, off, bytes) ==
    [i \in 1..Len(mem) |->
        IF i > off /\ i <= off + Len(bytes) THEN bytes[i - off] ELSE mem[i]]

Get(mem, off, n) == [i \in 1..n |-> mem[off + i]]

Zeros(n) == [i \in 1..n |-> 0]

\* ------------------------------------------------- native address layouts
\* Field -> offset and size, per the Linux ABI of sockaddr_in, sockaddr_in6
\* and the family tag they share with sockaddr_storage.
V4Fields == {"ss_family", "sin_port", "sin_addr", "sin_zero"}

V6Fields == {"ss_family", "sin6_port", "sin6_flowinfo", "sin6_addr", "sin6_scope_id"}

FieldOff(f) ==
    CASE f = "ss_family" -> 0
      [] f = "sin_port" -> 2
      [] f = "sin_addr" -> 4
      [] f = "sin_zero" -> 8
      [] f = "sin6_port" -> 2
      [] f = "sin6_flowinfo" -> 4
      [] f = "sin6_addr" -> 8
      [] f = "sin6_scope_id" -> 24

FieldSize(f) ==
    CASE f = "ss_family" -> 2
      [] f = "sin_port" -> 2
      [] f = "sin_addr" -> 4
      [] f = "sin_zero" -> 8
      [] f = "sin6_port" -> 2
      [] f = "sin6_flowinfo" -> 4
      [] f = "sin6_addr" -> 16
      [] f = "sin6_scope_id" -> 4

RECURSIVE SumSizes(_)
SumSizes(fs) ==
    IF fs = {} THEN 0
    ELSE LET f == CHOOSE x \in fs : TRUE
         IN  FieldSize(f) + SumSizes(fs \ {f})

\* size_of::<sockaddr_in>(), size_of::<sockaddr_in6>() and the size of the
\* union SocketAddrCRepr that superimposes them.
\* Mutant of SizeofSockaddrIn: the size of the whole union taken for the
\* length of the v4 structure.
SizeofUnionForV4 == SumSizes(V6Fields)

SizeofSockaddrIn == SumSizes(V4Fields)

SizeofSockaddrIn6 == SumSizes(V6Fields)

SizeofSocketAddrCRepr ==
    IF SizeofSockaddrIn > SizeofSockaddrIn6 THEN SizeofSockaddrIn ELSE SizeofSockaddrIn6

FieldBytes(f) == {FieldOff(f) + i : i \in 0..(FieldSize(f) - 1)}

WriteField(mem, f, bytes) == Put(mem, FieldOff(f), bytes)

ReadField(mem, f) == Get(mem, FieldOff(f), FieldSize(f))

\* --------------------------------------------------------- portable address
NoAddr == [fam |-> "none"]

V4(ip, port) == [fam |-> "V4", ip |-> ip, port |-> port]

V6(ip, port, flowinfo, scope_id) ==
    [fam |-> "V6", ip |-> ip, port |-> port, flowinfo |-> flowinfo, scope_id |-> scope_id]

Ok(v) == [ok |-> TRUE, val |-> v]

Err(e) == [ok |-> FALSE, err |-> e]

\* ------------------------------------------------------------ net.rs codec
\* socket_addr: the native image of a portable address and its length.  The
\* union is built on the stack from one variant: the bytes the variant does
\* not cover keep whatever the memory held (uninit), any value.
socket_addr(addr, uninit, e) ==
    IF addr.fam = "V4"
    THEN LET sin_addr == from_ne_bytes(addr.ip, e)
             m1 == WriteField(uninit, "ss_family", U16Bytes(AF_INET, e))
             m2 == WriteField(m1, "sin_port", U16Bytes(to_be(addr.port, e), e))
             m3 == WriteField(m2, "sin_addr", U32Bytes(sin_addr, e))
             m4 == WriteField(m3, "sin_zero", Zeros(8))
         IN  [sockaddr |-> m4, socklen |-> SizeofSockaddrIn]
    ELSE LET m1 == WriteField(uninit, "ss_family", U16Bytes(AF_INET6, e))
             m2 == WriteField(m1, "sin6_port", U16Bytes(to_be(addr.port, e), e))
             m3 == WriteField(m2, "sin6_addr", addr.ip)
             m4 == WriteField(m3, "sin6_flowinfo", U32Bytes(addr.flowinfo, e))
             m5 == WriteField(m4, "sin6_scope_id", U32Bytes(addr.scope_id, e))
         IN  [sockaddr |-> m5, socklen |-> SizeofSockaddrIn6]

\* Mutant of to_socket_addr: no arm for other families, anything that is not
\* AF_INET is read as a sockaddr_in6.
to_socket_addr_no_default(storage, e) ==
    LET ss_family == U16From(ReadField(storage, "ss_family"), e)
    IN  IF ss_family = AF_INET
        THEN LET ip == to_ne_bytes(U32From(ReadField(storage, "sin_addr"), e), e)
                 port == from_be(U16From(ReadField(storage, "sin_port"), e), e)
             IN  [res |-> Ok(V4(ip, port)),
                  reads |-> {"ss_family", "sin_addr", "sin_port"}]
        ELSE LET ip == ReadField(storage, "sin6_addr")
                 port == from_be(U16From(ReadField(storage, "sin6_port"), e), e)
                 flowinfo == U32From(ReadField(storage, "sin6_flowinfo"), e)
                 scope_id == U32From(ReadField(storage, "sin6_scope_id"), e)
             IN  [res |-> Ok(V6(ip, port, flowinfo, scope_id)),
                  reads |-> {"ss_family", "sin6_addr", "sin6_port",
                             "sin6_flowinfo", "sin6_scope_id"}]

\* to_socket_addr: the portable address of a native image, or InvalidInput.
\* reads names the fields the match arm taken loads from the storage.
to_socket_addr(storage, e) ==
    LET ss_family == U16From(ReadField(storage, "ss_family"), e)
    IN  IF ss_family = AF_INET
        THEN LET ip == to_ne_bytes(U32From(ReadField(storage, "sin_addr"), e), e)
                 port == from_be(U16From(ReadField(storage, "sin_port"), e), e)
             IN  [res |-> Ok(V4(ip, port)),
                  reads |-> {"ss_family", "sin_addr", "sin_port"}]
        ELSE IF ss_family = AF_INET6
        THEN LET ip == ReadField(storage, "sin6_addr")
                 port == from_be(U16From(ReadField(storage, "sin6_port"), e), e)
                 flowinfo == U32From(ReadField(storage, "sin6_flowinfo"), e)
                 scope_id == U32From(ReadField(storage, "sin6_scope_id"), e)
             IN  [res |-> Ok(V6(ip, port, flowinfo, scope_id)),
                  reads |-> {"ss_family", "sin6_addr", "sin6_port",
                             "sin6_flowinfo", "sin6_scope_id"}]
        ELSE [res |-> Err("InvalidInput"), reads |-> {"ss_family"}]

\* ------------------------------------------------------------------ state
VARIABLES
    endian,      \* byte order of the build target ("ne" in the source)
    caddr,       \* codec: the portable address given to socket_addr
    cstorage,    \* codec: the native storage (bytes) under inspection
    clen,        \* codec: the length socket_addr returned
    cres,        \* codec: what to_socket_addr returned for cstorage
    creads,      \* codec: the fields that call loaded
    caltres,     \* codec: what it returns once every byte outside the tagged
                 \*        layout is changed
    cphase       \* codec: "idle", "encoded", "filled", "decoded"

cvars == <<caddr, cstorage, clen, cres, creads, caltres, cphase>>

\* ---------------------------------------------------------- sample inputs
Ip4Samples ==
    {<<127, 0, 0, 1>>} \cup
    {<<(k * 37) % 256, (k * 91 + 1) % 256, (k * 113 + 2) % 256, (k * 201 + 3) % 256>> :
        k \in 0..MaxIpK}

Ip6Samples ==
    {[i \in 1..16 |-> IF i = 16 THEN 1 ELSE 0]} \cup
    {[i \in 1..16 |-> (k * i * 17 + i + k * 3) % 256] : k \in 0..MaxIpK}

PortSamples == {0, 65535} \cup {(k * 4243 + 80) % 65536 : k \in 0..MaxPortK}

WordSamples ==
    {<<0, 0>>, <<65535, 65535>>} \cup
    {<<(k * 258) % 65536, (k * 772 + k - 1) % 65536>> : k \in 1..MaxWordK}

AddrSamples ==
    {V4(ip, port) : ip \in Ip4Samples, port \in PortSamples} \cup
    {V6(x[1], x[2], x[3], x[4]) :
        x \in Ip6Samples \X PortSamples \X WordSamples \X WordSamples}

\* What uninitialised memory of n bytes may hold.
JunkPattern(n, k) == [i \in 1..n |-> (k * i * 29 + k * 255) % 256]

JunkSamples(n) == {JunkPattern(n, k) : k \in 0..MaxJunkK}

LifeJunk(n) == {JunkPattern(n, k + 1) : k \in 0..MaxLifeJunkK}

\* Family tags a storage may carry: the two supported ones, their byte-swapped
\* images, and tags of other families.
FamilySamples ==
    {0, 1, 17, AF_INET, AF_INET6, SwapBytes16(AF_INET), SwapBytes16(AF_INET6)}

FillSamples(n) == {[i \in 1..n |-> (k * i * 53 + k * 7 + i) % 256] : k \in 0..MaxFillK}

\* The family tag a storage carries, and the bytes of the layout it names.
TagOf(storage, e) == U16From(Get(storage, 0, 2), e)

LayoutFields(tag) ==
    IF tag = AF_INET THEN V4Fields
    ELSE IF tag = AF_INET6 THEN V6Fields
    ELSE {"ss_family"}

LayoutBytes(tag) == UNION {FieldBytes(f) : f \in LayoutFields(tag)}

\* The storage with every byte outside its tagged layout changed.
OutsideChanged(storage, e) ==
    LET bytes == LayoutBytes(TagOf(storage, e))
    IN  [i \in 1..Len(storage) |->
            IF (i - 1) \in bytes THEN storage[i] ELSE 255 - storage[i]]

\* ------------------------------------------------------- codec initial state
CodecInit ==
    /\ caddr = NoAddr
    /\ cstorage = <<>>
    /\ clen = 0
    /\ cres = Err("none")
    /\ creads = {}
    /\ caltres = Err("none")
    /\ cphase = "idle"

\* ----------------------------------------------------------- kernel model
\* Descriptor numbers of the process, and the invalid sentinel.
Fd == 0..(MaxFd - 1)

InvalidFd == 0 - 1

FdVals == {InvalidFd} \cup Fd

Kinds == {"listener", "stream"}

EINPROGRESS == "EINPROGRESS"

\* io::Error::kind() of an error value.
ErrorKind(e) ==
    CASE e = "EAGAIN" -> "WouldBlock"
      [] e = "InvalidInput" -> "InvalidInput"
      [] OTHER -> "Os"

ErrorKindOf(r) == IF r.ok THEN "none" ELSE ErrorKind(r.err)

RECURSIVE BitOr(_, _)
BitOr(a, b) ==
    IF a = 0 THEN b
    ELSE IF b = 0 THEN a
    ELSE (IF a % 2 = 1 \/ b % 2 = 1 THEN 1 ELSE 0) + 2 * BitOr(a \div 2, b \div 2)

HasFlag(x, flag) == (x \div flag) % 2 = 1

FreeEntry ==
    [open |-> FALSE, origin |-> "none", domain |-> 0, nonblock |-> FALSE,
     cloexec |-> FALSE, reuseaddr |-> FALSE, bound |-> NoAddr, listening |-> FALSE,
     backlog |-> 0, pending |-> 0]

NoFault == [at |-> "none", errno |-> "none"]

\* The errors the kernel may answer a call with for reasons outside the model
\* (limits, memory, permissions, the network).
Faults ==
    {NoFault,
     [at |-> "socket", errno |-> "ENFILE"],
     [at |-> "setsockopt", errno |-> "ENOMEM"],
     [at |-> "bind", errno |-> "EACCES"],
     [at |-> "listen", errno |-> "ENOBUFS"],
     [at |-> "connect", errno |-> "ENETUNREACH"],
     [at |-> "connect", errno |-> "EINPROGRESS"],
     [at |-> "accept4", errno |-> "ECONNABORTED"]}

FaultsAt(fns) == {f \in Faults : f.at \in fns \cup {"none"}}

\* The world a handler runs in: the descriptor table, the live endpoints
\* (how many of each kind wrap each descriptor number), the thread's errno,
\* the system calls issued so far by the running handler, and the handler's
\* address buffer.
Log(w, fn, args, res) ==
    [w EXCEPT !.calls = Append(@, [fn |-> fn, args |-> args, res |-> res,
                                    errno |-> IF res = InvalidFd THEN w.errno ELSE "none"])]

Fail(w, fn, args, errno) == Log([w EXCEPT !.errno = errno], fn, args, InvalidFd)

LowestFree(fdtab) ==
    IF \E fd \in Fd : ~fdtab[fd].open
    THEN CHOOSE fd \in Fd : ~fdtab[fd].open /\ \A g \in Fd : g < fd => fdtab[g].open
    ELSE InvalidFd

IsOpen(w, fd) == fd \in Fd /\ w.fdtab[fd].open

\* The address the kernel reads from a sockaddr of len bytes given to a socket
\* of the domain, or the errno it answers.
KernelParse(domain, mem, len, e) ==
    LET tag == U16From(Get(mem, 0, 2), e)
    IN  IF domain = AF_INET
        THEN IF len < 16 THEN Err("EINVAL")
             ELSE IF tag # AF_INET THEN Err("EAFNOSUPPORT")
             ELSE Ok(V4(Get(mem, 4, 4), 256 * mem[3] + mem[4]))
        ELSE IF domain = AF_INET6
        THEN IF len < 28 THEN Err("EINVAL")
             ELSE IF tag # AF_INET6 THEN Err("EAFNOSUPPORT")
             ELSE Ok(V6(Get(mem, 8, 16), 256 * mem[3] + mem[4],
                        U32From(Get(mem, 4, 4), e), U32From(Get(mem, 24, 4), e)))
        ELSE Err("EAFNOSUPPORT")

\* The sockaddr the kernel writes for a peer into the caller's buffer: for a
\* peer without an inet address (a unix socket), the family tag alone.
KernelSockaddr(buf, peer, e) ==
    IF peer.fam = "V4"
    THEN Put(Put(Put(Put(buf, 0, U16Bytes(AF_INET, e)),
                     2, <<peer.port \div 256, peer.port % 256>>),
                 4, peer.ip),
             8, Zeros(8))
    ELSE IF peer.fam = "V6"
    THEN Put(Put(Put(Put(Put(buf, 0, U16Bytes(AF_INET6, e)),
                         2, <<peer.port \div 256, peer.port % 256>>),
                     4, U32Bytes(peer.flowinfo, e)),
                 8, peer.ip),
             24, U32Bytes(peer.scope_id, e))
    ELSE Put(buf, 0, U16Bytes(1, e))

\* socket(domain, type, protocol)
sys_socket(w, domain, type, fault) ==
    LET fd == LowestFree(w.fdtab)
        args == <<domain, type, 0>>
    IN  IF fault.at = "socket" THEN Fail(w, "socket", args, fault.errno)
        ELSE IF fd = InvalidFd THEN Fail(w, "socket", args, "EMFILE")
        ELSE Log([w EXCEPT !.fdtab[fd] =
                      [FreeEntry EXCEPT !.open = TRUE, !.origin = "socket",
                                        !.domain = domain,
                                        !.nonblock = HasFlag(type, SOCK_NONBLOCK),
                                        !.cloexec = HasFlag(type, SOCK_CLOEXEC)]],
                 "socket", args, fd)

\* setsockopt(fd, SOL_SOCKET, SO_REUSEADDR, &1, 4)
sys_setsockopt(w, fd, fault) ==
    IF ~IsOpen(w, fd) THEN Fail(w, "setsockopt", <<fd>>, "EBADF")
    ELSE IF fault.at = "setsockopt" THEN Fail(w, "setsockopt", <<fd>>, fault.errno)
    ELSE Log([w EXCEPT !.fdtab[fd].reuseaddr = TRUE], "setsockopt", <<fd>>, 0)

\* bind(fd, addr, len): EADDRINUSE while another socket listens on the address.
sys_bind(w, fd, mem, len, e, fault) ==
    LET args == <<fd, len>>
        a == KernelParse(w.fdtab[fd].domain, mem, len, e)
    IN  IF ~IsOpen(w, fd) THEN Fail(w, "bind", args, "EBADF")
        ELSE IF ~a.ok THEN Fail(w, "bind", args, a.err)
        ELSE IF w.fdtab[fd].bound # NoAddr THEN Fail(w, "bind", args, "EINVAL")
        ELSE IF \E g \in Fd : g # fd /\ w.fdtab[g].open /\ w.fdtab[g].listening
                              /\ w.fdtab[g].bound = a.val
             THEN Fail(w, "bind", args, "EADDRINUSE")
        ELSE IF fault.at = "bind" THEN Fail(w, "bind", args, fault.errno)
        ELSE Log([w EXCEPT !.fdtab[fd].bound = a.val], "bind", args, 0)

\* listen(fd, backlog)
sys_listen(w, fd, backlog, fault) ==
    LET args == <<fd, backlog>>
    IN  IF ~IsOpen(w, fd) THEN Fail(w, "listen", args, "EBADF")
        ELSE IF fault.at = "listen" THEN Fail(w, "listen", args, fault.errno)
        ELSE Log([w EXCEPT !.fdtab[fd].listening = TRUE, !.fdtab[fd].backlog = backlog],
                 "listen", args, 0)

\* connect(fd, addr, len): done at once, or an errno (EINPROGRESS on a
\* non-blocking socket whose handshake goes on).
sys_connect(w, fd, mem, len, e, fault) ==
    LET args == <<fd, len>>
        a == KernelParse(w.fdtab[fd].domain, mem, len, e)
    IN  IF ~IsOpen(w, fd) THEN Fail(w, "connect", args, "EBADF")
        ELSE IF ~a.ok THEN Fail(w, "connect", args, a.err)
        ELSE IF fault.at = "connect" THEN Fail(w, "connect", args, fault.errno)
        ELSE Log(w, "connect", args, 0)

\* close(fd)
sys_close(w, fd) ==
    IF ~IsOpen(w, fd) THEN Fail(w, "close", <<fd>>, "EBADF")
    ELSE Log([w EXCEPT !.fdtab[fd] = FreeEntry], "close", <<fd>>, 0)

\* The result of the last call the handler issued.
LastRes(w) == w.calls[Len(w.calls)].res

\* The peers whose connection a listening socket of the domain may hold.
LifePorts == {8080 + 4243 * k : k \in 0..MaxLifePortK}

LifeAddrs ==
    {V4(<<127, 0, 0, 1>>, port) : port \in LifePorts} \cup
    {V6([i \in 1..16 |-> IF i = 16 THEN 1 ELSE 0], port, <<0, 7>>, <<258, 3>>) : port \in LifePorts}

UnixPeer == [fam |-> "unix"]

PeersOf(domain) ==
    IF domain = AF_INET THEN {a \in LifeAddrs : a.fam = "V4"}
    ELSE IF domain = AF_INET6 THEN {a \in LifeAddrs : a.fam = "V6"}
    ELSE {UnixPeer}

\* accept4(fd, buf, &len, flags) on a socket that does not make the caller
\* wait: the new descriptor and the peer's sockaddr in buf, or an errno.
sys_accept4(w, fd, flags, peer, e, fault) ==
    LET args == <<fd, flags>>
        new == LowestFree(w.fdtab)
    IN  IF ~IsOpen(w, fd) THEN Fail(w, "accept4", args, "EBADF")
        ELSE IF ~w.fdtab[fd].listening THEN Fail(w, "accept4", args, "EINVAL")
        ELSE IF w.fdtab[fd].pending = 0 THEN Fail(w, "accept4", args, "EAGAIN")
        ELSE IF fault.at = "accept4"
             THEN Fail([w EXCEPT !.fdtab[fd].pending = @ - 1], "accept4", args, fault.errno)
        ELSE IF new = InvalidFd THEN Fail(w, "accept4", args, "EMFILE")
        ELSE Log([w EXCEPT !.fdtab[fd].pending = @ - 1,
                           !.fdtab[new] =
                               [FreeEntry EXCEPT !.open = TRUE, !.origin = "accept4",
                                                 !.domain = w.fdtab[fd].domain,
                                                 !.nonblock = HasFlag(flags, SOCK_NONBLOCK),
                                                 !.cloexec = HasFlag(flags, SOCK_CLOEXEC)],
                           !.mem = KernelSockaddr(w.mem, peer, e)],
                 "accept4", args, new)

\* Whether accept4 on fd parks the calling thread: a blocking socket with an
\* empty queue.
WouldWait(tab, fd) ==
    /\ fd \in Fd
    /\ tab[fd].open
    /\ tab[fd].listening
    /\ tab[fd].pending = 0
    /\ ~tab[fd].nonblock

\* --------------------------------------------------------- lib.rs, net.rs
\* Mutant of syscall: the test is res < -1, so -1 passes for a result.
syscall_off_by_one(w) == IF LastRes(w) < InvalidFd THEN Err(w.errno) ELSE Ok(LastRes(w))

\* syscall!: -1 becomes Err(last_os_error()), anything else Ok(res).
syscall(w) == IF LastRes(w) = InvalidFd THEN Err(w.errno) ELSE Ok(LastRes(w))

\* Mutant of create_new_socket: SOCK_NONBLOCK is not requested.
create_new_socket_blocking(w, domain, socket_type, fault) ==
    LET type == BitOr(socket_type, SOCK_CLOEXEC)
        w1 == sys_socket(w, domain, type, fault)
    IN  [w |-> w1, r |-> syscall(w1)]

create_new_socket(w, domain, socket_type, fault) ==
    LET type == BitOr(BitOr(socket_type, SOCK_NONBLOCK), SOCK_CLOEXEC)
        w1 == sys_socket(w, domain, type, fault)
    IN  [w |-> w1, r |-> syscall(w1)]

\* ------------------------------------------------------------------ tcp.rs
new_for_addr(w, addr, fault) ==
    LET domain == IF addr.fam = "V4" THEN AF_INET ELSE AF_INET6
    IN  create_new_socket(w, domain, SOCK_STREAM, fault)

\* FromRawFd, IntoRawFd and the drop of an endpoint (std's OwnedFd closes).
from_raw_fd(w, kind, fd) == [w EXCEPT !.owners[kind][fd] = @ + 1]

into_raw_fd(w, kind, fd) == [w EXCEPT !.owners[kind][fd] = @ - 1]

\* Mutant of drop: the endpoint is forgotten, its descriptor never closed.
drop_forgets(w, kind, fd) == [w EXCEPT !.owners[kind][fd] = @ - 1]

drop(w, kind, fd) == sys_close([w EXCEPT !.owners[kind][fd] = @ - 1], fd)

Endpoint(kind, fd, addr) == [kind |-> kind, fd |-> fd, addr |-> addr]

\* Mutant of bind: the descriptor is wrapped only once listen has succeeded,
\* so an earlier failure returns with it still open.
bind_wraps_late(w, addr, uninit, e, fault) ==
    LET s == new_for_addr(w, addr, fault)
    IN  IF ~s.r.ok THEN [w |-> s.w, ret |-> s.r]
        ELSE
        LET socket == s.r.val
            w1 == sys_setsockopt(s.w, socket, fault)
            r1 == syscall(w1)
        IN  IF ~r1.ok THEN [w |-> w1, ret |-> r1]
            ELSE
            LET raw == socket_addr(addr, uninit, e)
                w2 == sys_bind(w1, socket, raw.sockaddr, raw.socklen, e, fault)
                r2 == syscall(w2)
            IN  IF ~r2.ok THEN [w |-> w2, ret |-> r2]
                ELSE
                LET w3 == sys_listen(w2, socket, Backlog, fault)
                    r3 == syscall(w3)
                IN  IF ~r3.ok THEN [w |-> w3, ret |-> r3]
                    ELSE [w |-> from_raw_fd(w3, "listener", socket),
                          ret |-> Ok(Endpoint("listener", socket, NoAddr))]

\* TcpListener::bind
bind(w, addr, uninit, e, fault) ==
    LET s == new_for_addr(w, addr, fault)
    IN  IF ~s.r.ok THEN [w |-> s.w, ret |-> s.r]
        ELSE
        LET socket == s.r.val
            listener == from_raw_fd(s.w, "listener", socket)
            w1 == sys_setsockopt(listener, socket, fault)
            r1 == syscall(w1)
        IN  IF ~r1.ok THEN [w |-> drop(w1, "listener", socket), ret |-> r1]
            ELSE
            LET raw == socket_addr(addr, uninit, e)
                w2 == sys_bind(w1, socket, raw.sockaddr, raw.socklen, e, fault)
                r2 == syscall(w2)
            IN  IF ~r2.ok THEN [w |-> drop(w2, "listener", socket), ret |-> r2]
                ELSE
                LET w3 == sys_listen(w2, socket, Backlog, fault)
                    r3 == syscall(w3)
                IN  IF ~r3.ok THEN [w |-> drop(w3, "listener", socket), ret |-> r3]
                    ELSE [w |-> w3, ret |-> Ok(Endpoint("listener", socket, NoAddr))]

\* Mutant of accept: accept4 is asked for SOCK_CLOEXEC alone.
accept_cloexec_only(w, fd, uninit, peer, e, fault) ==
    LET w0 == [w EXCEPT !.mem = uninit]
        w1 == sys_accept4(w0, fd, SOCK_CLOEXEC, peer, e, fault)
        r1 == syscall(w1)
    IN  IF ~r1.ok THEN [w |-> w1, ret |-> r1]
        ELSE
        LET stream == from_raw_fd(w1, "stream", r1.val)
            d == to_socket_addr(stream.mem, e).res
        IN  IF d.ok
            THEN [w |-> stream, ret |-> Ok(Endpoint("stream", r1.val, d.val))]
            ELSE [w |-> drop(stream, "stream", r1.val), ret |-> d]

\* Mutant of accept: a peer address that does not decode is reported as
\* nothing to accept, and the connection is dropped.
accept_swallows(w, fd, uninit, peer, e, fault) ==
    LET w0 == [w EXCEPT !.mem = uninit]
        w1 == sys_accept4(w0, fd, BitOr(SOCK_CLOEXEC, SOCK_NONBLOCK), peer, e, fault)
        r1 == syscall(w1)
    IN  IF ~r1.ok THEN [w |-> w1, ret |-> r1]
        ELSE
        LET stream == from_raw_fd(w1, "stream", r1.val)
            d == to_socket_addr(stream.mem, e).res
        IN  IF d.ok
            THEN [w |-> stream, ret |-> Ok(Endpoint("stream", r1.val, d.val))]
            ELSE [w |-> drop(stream, "stream", r1.val), ret |-> Err("EAGAIN")]

\* TcpListener::accept, from the accept4 call on
accept(w, fd, uninit, peer, e, fault) ==
    LET w0 == [w EXCEPT !.mem = uninit]
        w1 == sys_accept4(w0, fd, BitOr(SOCK_CLOEXEC, SOCK_NONBLOCK), peer, e, fault)
        r1 == syscall(w1)
    IN  IF ~r1.ok THEN [w |-> w1, ret |-> r1]
        ELSE
        LET stream == from_raw_fd(w1, "stream", r1.val)
            d == to_socket_addr(stream.mem, e).res
        IN  IF d.ok
            THEN [w |-> stream, ret |-> Ok(Endpoint("stream", r1.val, d.val))]
            ELSE [w |-> drop(stream, "stream", r1.val), ret |-> d]

\* Mutant of connect: every connect error is returned, EINPROGRESS too.
connect_inprogress_fails(w, addr, uninit, e, fault) ==
    LET s == new_for_addr(w, addr, fault)
    IN  IF ~s.r.ok THEN [w |-> s.w, ret |-> s.r]
        ELSE
        LET socket == s.r.val
            stream == from_raw_fd(s.w, "stream", socket)
            raw == socket_addr(addr, uninit, e)
            w1 == sys_connect(stream, socket, raw.sockaddr, raw.socklen, e, fault)
            r1 == syscall(w1)
        IN  IF ~r1.ok
            THEN [w |-> drop(w1, "stream", socket), ret |-> r1]
            ELSE [w |-> w1, ret |-> Ok(Endpoint("stream", socket, NoAddr))]

\* TcpStream::connect
connect(w, addr, uninit, e, fault) ==
    LET s == new_for_addr(w, addr, fault)
    IN  IF ~s.r.ok THEN [w |-> s.w, ret |-> s.r]
        ELSE
        LET socket == s.r.val
            stream == from_raw_fd(s.w, "stream", socket)
            raw == socket_addr(addr, uninit, e)
            w1 == sys_connect(stream, socket, raw.sockaddr, raw.socklen, e, fault)
            r1 == syscall(w1)
        IN  IF ~r1.ok /\ r1.err # EINPROGRESS
            THEN [w |-> drop(w1, "stream", socket), ret |-> r1]
            ELSE [w |-> w1, ret |-> Ok(Endpoint("stream", socket, NoAddr))]

\* --------------------------------------------------------- life-cycle state
VARIABLES
    fdtab,       \* the kernel's descriptor table: Fd -> entry
    owners,      \* live endpoints: kind -> descriptor number -> how many wrap it
    held,        \* descriptor numbers whose ownership the caller holds as a
                 \* bare integer (from into_raw_fd, or opened outside this layer)
    waiting,     \* the descriptor the calling thread is parked on in accept4,
                 \* or InvalidFd
    last         \* the last operation: its argument, system calls and result

lvars == <<fdtab, owners, held, waiting, last>>

vars == <<endian, cvars, lvars>>

NoOp == [op |-> "none", arg |-> NoAddr, calls |-> <<>>, mem |-> <<>>, ret |-> Err("none")]

LifeInit ==
    /\ fdtab = [fd \in Fd |-> FreeEntry]
    /\ owners = [k \in Kinds |-> [fd \in FdVals |-> 0]]
    /\ held = {}
    /\ waiting = InvalidFd
    /\ last = NoOp

Init ==
    /\ endian \in Endians
    /\ CodecInit
    /\ LifeInit

\* The world a handler starts in, and the state it leaves.
World ==
    [fdtab |-> fdtab, owners |-> owners, errno |-> "none", calls |-> <<>>, mem |-> <<>>]

\* A number stays held by the caller only while the descriptor is open.
Commit(op, arg, r, holds) ==
    /\ fdtab' = r.w.fdtab
    /\ owners' = r.w.owners
    /\ held' = {fd \in holds : fd \in Fd /\ r.w.fdtab[fd].open}
    /\ last' = [op |-> op, arg |-> arg, calls |-> r.w.calls, mem |-> r.w.mem, ret |-> r.ret]

Live(kind, fd) == owners[kind][fd] > 0

RECURSIVE SumOver(_, _)
SumOver(f, dom) ==
    IF dom = {} THEN 0
    ELSE LET x == CHOOSE y \in dom : TRUE
         IN  f[x] + SumOver(f, dom \ {x})

\* How many live endpoints wrap descriptor number fd, and how many there are.
OwnersOf(fd) == owners["listener"][fd] + owners["stream"][fd]

LiveEndpoints == SumOver([fd \in FdVals |-> OwnersOf(fd)], FdVals)

\* ----------------------------------------------------------- codec actions
\* socket_addr(&addr) on a sample address.
Encode ==
    \E addr \in AddrSamples, uninit \in JunkSamples(SizeofSocketAddrCRepr) :
        LET r == socket_addr(addr, uninit, endian)
        IN  /\ cphase = "idle"
            /\ caddr' = addr
            /\ cstorage' = r.sockaddr
            /\ clen' = r.socklen
            /\ cphase' = "encoded"
            /\ UNCHANGED <<cres, creads, caltres, endian, lvars>>

\* A sockaddr_storage the OS has filled: a family tag and any content.
KernelFill ==
    \E tag \in FamilySamples, body \in FillSamples(SizeofSockaddrStorage) :
        /\ cphase = "idle"
        /\ caddr' = NoAddr
        /\ cstorage' = Put(body, 0, U16Bytes(tag, endian))
        /\ clen' = 0
        /\ cphase' = "filled"
        /\ UNCHANGED <<cres, creads, caltres, endian, lvars>>

\* to_socket_addr(storage) on the storage at hand.
Decode ==
    /\ cphase \in {"encoded", "filled"}
    /\ LET r == to_socket_addr(cstorage, endian)
       IN  /\ cres' = r.res
           /\ creads' = r.reads
    /\ caltres' = to_socket_addr(OutsideChanged(cstorage, endian), endian).res
    /\ cphase' = "decoded"
    /\ UNCHANGED <<caddr, cstorage, clen, endian, lvars>>

CodecNext == Encode \/ KernelFill \/ Decode

\* ------------------------------------------------------ life-cycle actions
Bind ==
    \E addr \in LifeAddrs, uninit \in LifeJunk(SizeofSocketAddrCRepr),
       fault \in FaultsAt({"socket", "setsockopt", "bind", "listen"}) :
        /\ waiting = InvalidFd
        /\ LiveEndpoints < MaxEp
        /\ Commit("bind", addr, bind(World, addr, uninit, endian, fault), held)
        /\ UNCHANGED <<waiting, endian, cvars>>

Connect ==
    \E addr \in LifeAddrs, uninit \in LifeJunk(SizeofSocketAddrCRepr),
       fault \in FaultsAt({"socket", "connect"}) :
        /\ waiting = InvalidFd
        /\ LiveEndpoints < MaxEp
        /\ Commit("connect", addr, connect(World, addr, uninit, endian, fault), held)
        /\ UNCHANGED <<waiting, endian, cvars>>

\* self.accept() once accept4 does not park the thread.
AcceptRun(fd) ==
    \E uninit \in LifeJunk(SizeofSockaddrStorage),
       peer \in PeersOf(IF IsOpen(World, fd) THEN fdtab[fd].domain ELSE 0),
       fault \in FaultsAt({"accept4"}) :
        /\ LiveEndpoints < MaxEp
        /\ Commit("accept", Endpoint("listener", fd, NoAddr),
                  accept(World, fd, uninit, peer, endian, fault), held)

\* A listener's accept: it returns at once, or parks in accept4 when the
\* descriptor is a blocking one with nothing queued.
Accept ==
    \E fd \in FdVals :
        /\ waiting = InvalidFd
        /\ Live("listener", fd)
        /\ IF WouldWait(fdtab, fd)
           THEN /\ waiting' = fd
                /\ UNCHANGED <<fdtab, owners, held, last>>
           ELSE /\ AcceptRun(fd)
                /\ UNCHANGED waiting
        /\ UNCHANGED <<endian, cvars>>

\* A parked accept4 returns when a connection is queued.
AcceptWake ==
    /\ waiting # InvalidFd
    /\ ~WouldWait(fdtab, waiting)
    /\ AcceptRun(waiting)
    /\ waiting' = InvalidFd
    /\ UNCHANGED <<endian, cvars>>

\* TcpListener::from_raw_fd / TcpStream::from_raw_fd on any number.
FromRawFd ==
    \E kind \in Kinds, fd \in Fd :
        /\ waiting = InvalidFd
        /\ LiveEndpoints < MaxEp
        /\ Commit("from_raw_fd", Endpoint(kind, fd, NoAddr),
                  [w |-> from_raw_fd(World, kind, fd), ret |-> Ok(Endpoint(kind, fd, NoAddr))],
                  held \ {fd})
        /\ UNCHANGED <<waiting, endian, cvars>>

\* into_raw_fd(self): the endpoint is consumed, nothing is closed.
IntoRawFd ==
    \E kind \in Kinds, fd \in FdVals :
        /\ waiting = InvalidFd
        /\ Live(kind, fd)
        /\ Commit("into_raw_fd", Endpoint(kind, fd, NoAddr),
                  [w |-> into_raw_fd(World, kind, fd), ret |-> Ok(Endpoint("raw", fd, NoAddr))],
                  held \cup {fd})
        /\ UNCHANGED <<waiting, endian, cvars>>

\* An endpoint goes out of scope.
Drop ==
    \E kind \in Kinds, fd \in FdVals :
        /\ waiting = InvalidFd
        /\ Live(kind, fd)
        /\ Commit("drop", Endpoint(kind, fd, NoAddr),
                  [w |-> drop(World, kind, fd), ret |-> Ok(Endpoint("none", fd, NoAddr))],
                  held)
        /\ UNCHANGED <<waiting, endian, cvars>>

\* The sockets a caller may obtain outside this layer (std, libc): a blocking
\* unix listener, a blocking inet listener.
ExternalSockets ==
    {[domain |-> 1, nonblock |-> FALSE, listening |-> TRUE],
     [domain |-> AF_INET, nonblock |-> FALSE, listening |-> TRUE]}

\* The caller obtains a socket outside this layer; it holds the number.
ExternalOpen ==
    \E x \in ExternalSockets :
        LET fd == LowestFree(fdtab)
        IN  /\ fd # InvalidFd
            /\ fdtab' = [fdtab EXCEPT ![fd] =
                            [FreeEntry EXCEPT !.open = TRUE, !.origin = "external",
                                              !.domain = x.domain, !.nonblock = x.nonblock,
                                              !.listening = x.listening]]
            /\ held' = held \cup {fd}
            /\ UNCHANGED <<owners, waiting, last, endian, cvars>>

\* A peer's handshake completes on a listening socket.
PeerConnect ==
    \E fd \in Fd :
        /\ fdtab[fd].open
        /\ fdtab[fd].listening
        /\ fdtab[fd].pending < MaxPending
        /\ fdtab' = [fdtab EXCEPT ![fd].pending = @ + 1]
        /\ UNCHANGED <<owners, held, waiting, last, endian, cvars>>

Next ==
    \/ Bind
    \/ Connect
    \/ Accept
    \/ AcceptWake
    \/ FromRawFd
    \/ IntoRawFd
    \/ Drop
    \/ ExternalOpen
    \/ PeerConnect

Spec == Init /\ [][Next]_vars

\* The codec alone, over the sample addresses and storages.
SpecCodec == Init /\ [][CodecNext]_vars

\* ================================================================ claims
\* ---------------------------------------------------------------- codec
\* C1: for every portable address a, to_socket_addr of the storage that
\* socket_addr(a) produced succeeds and returns a, equal in every field of
\* its family (V4: address, port; V6: address, port, flow_info, scope_id).
C1_RoundTrip ==
    (cphase = "decoded" /\ caddr # NoAddr) =>
        /\ cres.ok
        /\ cres.val.fam = caddr.fam
        /\ cres.val.ip = caddr.ip
        /\ cres.val.port = caddr.port
        /\ (caddr.fam = "V6" =>
                /\ cres.val.flowinfo = caddr.flowinfo
                /\ cres.val.scope_id = caddr.scope_id)
        /\ cres = Ok(caddr)

\* C1 witness: a V6 address with a port whose two bytes differ and non-zero
\* flow and scope has been encoded and decoded on a little-endian host.
C1_Witness ==
    /\ cphase = "decoded"
    /\ endian = "le"
    /\ caddr.fam = "V6"
    /\ caddr.port % 256 # caddr.port \div 256
    /\ caddr.flowinfo # <<0, 0>>
    /\ caddr.scope_id # <<0, 0>>
    /\ cres.ok

\* C5: decoding a storage whose family tag is neither AF_INET nor AF_INET6
\* fails with InvalidInput, and every decode loads only fields of the layout
\* the tag names: the tag alone for an unsupported one, sockaddr_in fields for
\* AF_INET, sockaddr_in6 fields for AF_INET6; so the result does not change
\* when every byte outside that layout does.
C5_DecodeByTag ==
    cphase = "decoded" =>
        LET tag == TagOf(cstorage, endian)
        IN  /\ (tag \notin {AF_INET, AF_INET6} =>
                    /\ cres = Err("InvalidInput")
                    /\ ErrorKindOf(cres) = "InvalidInput"
                    /\ creads = {"ss_family"})
            /\ (tag = AF_INET => cres.ok /\ creads \subseteq V4Fields)
            /\ (tag = AF_INET6 => cres.ok /\ creads \subseteq V6Fields)
            /\ caltres = cres

\* C5 witness: a storage tagged with another family (1, a unix socket) and
\* non-zero content has been decoded.
C5_Witness ==
    /\ cphase = "decoded"
    /\ TagOf(cstorage, endian) = 1
    /\ \E i \in 3..Len(cstorage) : cstorage[i] # 0
    /\ ~cres.ok

\* C9 as stated: socket_addr writes the family tag of the layout it fills
\* and returns that structure's size, which is never the size of the union.
C9_AsStated ==
    cphase = "encoded" =>
        /\ TagOf(cstorage, endian) = (IF caddr.fam = "V4" THEN AF_INET ELSE AF_INET6)
        /\ clen = (IF caddr.fam = "V4" THEN 16 ELSE 28)
        /\ clen # SizeofSocketAddrCRepr

\* C9 amended: socket_addr writes the family tag of the layout it fills and
\* returns that structure's size: 16 for V4, less than the union's; 28 for V6,
\* which is the union's own size, sockaddr_in6 being its largest member.
C9_TagAndLength ==
    cphase = "encoded" =>
        /\ TagOf(cstorage, endian) = (IF caddr.fam = "V4" THEN AF_INET ELSE AF_INET6)
        /\ clen = (IF caddr.fam = "V4" THEN 16 ELSE 28)
        /\ (caddr.fam = "V4" => clen < SizeofSocketAddrCRepr)
        /\ (caddr.fam = "V6" => clen = SizeofSocketAddrCRepr)

\* C9 witness: a V4 address has been encoded.
C9_Witness ==
    /\ cphase = "encoded"
    /\ caddr.fam = "V4"
    /\ clen = 16

\* ------------------------------------------------------------ life cycle
Held(fd) == IF fd \in held THEN 1 ELSE 0

\* Every open descriptor has one owner: one live endpoint, or the caller who
\* holds its number; no endpoint wraps a number that is not open.
OwnedOnce ==
    /\ \A fd \in Fd :
        IF fdtab[fd].open
        THEN OwnersOf(fd) + Held(fd) = 1
        ELSE OwnersOf(fd) = 0 /\ fd \notin held
    /\ OwnersOf(InvalidFd) = 0

\* No close() of the operation hit a descriptor that was not open.
NoBadClose(l) ==
    \A i \in 1..Len(l.calls) : l.calls[i].fn = "close" => l.calls[i].res = 0

\* The step is one of this layer's operations (each records itself in last),
\* not one of the environment's.
HandlerStep == last' # last \/ owners' # owners

\* A from_raw_fd step on a number the caller does not hold.
StrayWrap ==
    /\ owners' # owners
    /\ last'.op = "from_raw_fd"
    /\ last'.arg.fd \notin held

\* C2 as stated: after any sequence of bind, connect, accept, from_raw_fd,
\* into_raw_fd and drops, every open descriptor is owned by exactly one live
\* endpoint or was handed out by into_raw_fd, and none is closed twice.
C2_AsStated ==
    /\ \A fd \in Fd : fdtab[fd].open => OwnersOf(fd) + Held(fd) = 1
    /\ NoBadClose(last)

\* C2 amended: as long as from_raw_fd is given only numbers the caller holds
\* (released by into_raw_fd or opened outside the layer, open, wrapped by no
\* live endpoint), every step of bind, connect, accept, from_raw_fd,
\* into_raw_fd and drop, error paths included, keeps every open descriptor
\* with exactly one owner (one live endpoint, or the caller), closes nothing
\* twice and leaks nothing.
C2_OneOwner ==
    [][(OwnedOnce /\ ~StrayWrap) =>
            /\ OwnedOnce'
            /\ HandlerStep => NoBadClose(last')]_vars

\* C2 witness: a descriptor bind created has been released by into_raw_fd and
\* wrapped again, and has exactly one owner.
C2_Witness ==
    /\ last.op = "from_raw_fd"
    /\ OwnedOnce
    /\ fdtab[last.arg.fd].open
    /\ fdtab[last.arg.fd].origin = "socket"
    /\ OwnersOf(last.arg.fd) = 1

BindSteps == <<"socket", "setsockopt", "bind", "listen">>

NotClose(calls) == {i \in 1..Len(calls) : calls[i].fn # "close"}

CloseOf(fd) == [fn |-> "close", args |-> <<fd>>, res |-> 0, errno |-> "none"]

\* C3: bind issues socket, setsockopt, bind, listen(1024) in this order on
\* the created descriptor; when one fails it returns that call's errno and no
\* listener, issues none of the later ones, and closes the created descriptor
\* (if any) before it returns.
C3_BindAllOrNothing ==
    last.op = "bind" =>
        LET calls == last.calls
            n == Cardinality(NotClose(calls))
            fd == calls[1].res
        IN  /\ n \in 1..4
            /\ NotClose(calls) = 1..n
            /\ \A i \in 1..n : calls[i].fn = BindSteps[i]
            /\ \A i \in 1..(n - 1) : calls[i].res # InvalidFd
            /\ \A i \in 2..n : calls[i].args[1] = fd
            /\ IF last.ret.ok
               THEN /\ n = 4
                    /\ Len(calls) = 4
                    /\ calls[4].res = 0
                    /\ calls[4].args = <<fd, 1024>>
                    /\ last.ret.val = Endpoint("listener", fd, NoAddr)
               ELSE /\ calls[n].res = InvalidFd
                    /\ last.ret = Err(calls[n].errno)
                    /\ IF n = 1
                       THEN Len(calls) = 1
                       ELSE Len(calls) = n + 1 /\ calls[n + 1] = CloseOf(fd)

\* C3 witness: a bind whose bind call failed with EADDRINUSE has returned.
C3_Witness ==
    /\ last.op = "bind"
    /\ Len(last.calls) = 4
    /\ last.calls[3].errno = "EADDRINUSE"
    /\ last.ret = Err("EADDRINUSE")

\* C4: connect returns a stream owning the new descriptor when the connect
\* call succeeds or fails with EINPROGRESS; for any other connect error it
\* returns that error, no endpoint, and the descriptor is closed.
C4_ConnectInProgress ==
    (last.op = "connect" /\ last.calls[1].res # InvalidFd) =>
        LET calls == last.calls
            fd == calls[1].res
        IN  /\ Len(calls) >= 2
            /\ calls[2].fn = "connect"
            /\ calls[2].args[1] = fd
            /\ IF calls[2].res # InvalidFd \/ calls[2].errno = "EINPROGRESS"
               THEN /\ last.ret = Ok(Endpoint("stream", fd, NoAddr))
                    /\ Len(calls) = 2
               ELSE /\ last.ret = Err(calls[2].errno)
                    /\ Len(calls) = 3
                    /\ calls[3] = CloseOf(fd)

\* C4 witness: a connect whose connect call answered EINPROGRESS has returned
\* a stream.
C4_Witness ==
    /\ last.op = "connect"
    /\ Len(last.calls) = 2
    /\ last.calls[2].errno = "EINPROGRESS"
    /\ last.ret.ok

\* C6: every descriptor obtained by socket() or accept4() is non-blocking and
\* close-on-exec, the two flags being part of the creating call itself.
C6_FlagsAtCreation ==
    /\ \A fd \in Fd :
        (fdtab[fd].open /\ fdtab[fd].origin \in {"socket", "accept4"}) =>
            fdtab[fd].nonblock /\ fdtab[fd].cloexec
    /\ \A i \in 1..Len(last.calls) :
        last.calls[i].fn \in {"socket", "accept4"} =>
            /\ HasFlag(last.calls[i].args[2], 2048)
            /\ HasFlag(last.calls[i].args[2], 524288)

\* C6 witness: a descriptor from socket() and one from accept4() are open.
C6_Witness ==
    \E a \in Fd, b \in Fd :
        /\ fdtab[a].open /\ fdtab[a].origin = "socket"
        /\ fdtab[b].open /\ fdtab[b].origin = "accept4"

\* A listener is a bound one on fd: the descriptor is one socket() created
\* and listen() was called on (only bind does both).
BoundListener(fd) ==
    /\ Live("listener", fd)
    /\ fdtab[fd].open
    /\ fdtab[fd].origin = "socket"
    /\ fdtab[fd].listening

\* The step is an accept on fd: it returns, or parks the thread.
AcceptStep(fd) ==
    \/ waiting' = fd /\ waiting # fd
    \/ last' # last /\ last'.op = "accept" /\ last'.arg.fd = fd

\* C7: accept on a bound listener with no pending connection returns
\* would-block at once: the thread does not wait, no descriptor and no stream
\* are created, and the listener is left as it was.
C7_AcceptWouldBlock ==
    [][\A fd \in Fd :
        (waiting = InvalidFd /\ BoundListener(fd) /\ fdtab[fd].pending = 0 /\ AcceptStep(fd)) =>
            /\ waiting' = InvalidFd
            /\ last'.ret = Err("EAGAIN")
            /\ ErrorKindOf(last'.ret) = "WouldBlock"
            /\ Len(last'.calls) = 1
            /\ fdtab' = fdtab
            /\ owners' = owners]_vars

\* C7 witness: an accept on a bound listener has returned would-block, and
\* the listener is live, open and listening.
C7_Witness ==
    /\ last.op = "accept"
    /\ last.ret = Err("EAGAIN")
    /\ BoundListener(last.arg.fd)
    /\ waiting = InvalidFd

\* C8: bind, connect and accept never wrap the sentinel -1: each returns an
\* endpoint on the descriptor its creating call returned, a valid one, or an
\* error; a failed socket() or accept4() yields the error and nothing else.
C8_SentinelNeverWrapped ==
    /\ OwnersOf(InvalidFd) = 0
    /\ last.op \in {"bind", "connect", "accept"} =>
        /\ last.calls[1].fn = (IF last.op = "accept" THEN "accept4" ELSE "socket")
        /\ last.ret.ok =>
            /\ last.ret.val.fd \in Fd
            /\ last.ret.val.fd = last.calls[1].res
        /\ last.calls[1].res = InvalidFd =>
            /\ last.ret = Err(last.calls[1].errno)
            /\ Len(last.calls) = 1

\* C8 witness: socket() answered -1 to a bind, which returned the error.
C8_Witness ==
    /\ last.op = "bind"
    /\ last.calls[1].res = InvalidFd
    /\ ~last.ret.ok

\* C10: when accept4 succeeds and the peer address it wrote does not decode,
\* accept returns the decode error (InvalidInput).
C10_DecodeErrorSurfaced ==
    (/\ last.op = "accept"
     /\ last.calls[1].res # InvalidFd
     /\ TagOf(last.mem, endian) \notin {AF_INET, AF_INET6}) =>
        /\ last.ret = Err("InvalidInput")
        /\ ErrorKindOf(last.ret) = "InvalidInput"

\* C10 witness: accept4 succeeded on a unix listener and accept returned
\* InvalidInput.
C10_Witness ==
    /\ last.op = "accept"
    /\ last.calls[1].res # InvalidFd
    /\ TagOf(last.mem, endian) = 1
    /\ last.ret = Err("InvalidInput")

====
